---- MODULE Spec2Model ----
(***************************************************************************)
(* Model of the livekit-voice-agent control plane.                         *)
(*                                                                         *)
(*  - flask_server.py : the single-process agent supervisor                *)
(*        (start_agent / stop_agent / get_agent_status / health_check).    *)
(*  - flask_server.py : the event relay                                    *)
(*        (stream_agent_data / receive_agent_data).                        *)
(*  - room_manager.py : the room lifecycle manager                         *)
(*        (create_voice_session / end_voice_session / list_active_sessions)*)
(*  - enhanced_agent.py : the agent's data-channel handler                 *)
(*        (on_data_received / send_data_to_frontend) and the tasks that    *)
(*        forward the session's events (entrypoint).                       *)
(*                                                                         *)
(* Each HTTP handler is cut into steps at its accesses to shared state     *)
(* (the module globals, the child process, the remote room service); a     *)
(* request thread t is at step pc[t] (rpc[t] in the room manager).         *)
(*                                                                         *)
(*   Spec          the supervisor, NThreads request threads interleaving   *)
(*                 (Flask's development server handles requests in         *)
(*                 threads)                                                *)
(*   SpecSeq       the supervisor, one request at a time                   *)
(*   SpecSeqFair   SpecSeq with the stop request's thread kept running     *)
(*   SpecRoomsSeq  the room manager, one request at a time                 *)
(*   SpecRelay     the relay: stream threads beside one publishing thread  *)
(*   SpecRoomsEnd  the room manager, two end requests in flight            *)
(*   SpecAgent     the agent's handler, one data packet at a time          *)
(*   SpecForward   the agent's event-forwarding tasks                      *)
(*                                                                         *)
(* Each specification leaves the variables of the other parts at their     *)
(* initial values.                                                         *)
(***************************************************************************)
EXTENDS Integers, Sequences, FiniteSets, TLC

\* ----------------------------------------------------------------- bounds
\* Number of request threads of the supervisor that may be in flight.
NThreads == 2
\* Number of child processes the supervisor may spawn in one run.
MaxProcs == 3

Threads == 1..NThreads
Pids == 1..MaxProcs

\* ------------------------------------------------------------------ state
VARIABLES
    \* flask_server.py
    agent_process,  \* agent_process: 0 is None, else the Popen handle
    agent_status,   \* agent_status
    procs,          \* the OS: pid -> "none" (not spawned) | "alive" | "exited"
    signals,        \* handles whose terminate() was called (the termination signal)
    pc,             \* request thread -> the step of the handler it is at
    rstatus,        \* request thread -> the agent_status read for the response
    resp,           \* request thread -> the response of its last request
    \* room_manager.py
    active_rooms,   \* active_rooms: room name -> {'room', 'agent_worker'}
    remote_rooms,   \* the room service: names of the rooms that exist there
    workers,        \* worker handle -> "none" | "running" | "failed" | "shutdown"
    rpc,            \* request thread -> the step of the handler it is at
    rloc,           \* request thread -> the locals of its request
    rresp,          \* request thread -> the response of its last request
    \* flask_server.py, the event relay
    event_queues,   \* event_queues: the registered client queues, by connection
    queue,          \* connection -> the events its client_queue holds
    spc,            \* connection -> the step its event_stream generator is at
    held,           \* connection -> the chunk its generator is about to yield
    connected,      \* connection -> whether the client still holds it open
    delivered,      \* connection -> the chunks written to the client
    heartbeats,     \* connection -> the number of heartbeats written to it
    joined,         \* connection -> the events published when it registered
    idle,           \* connection -> nothing was put since its get() began
    late,           \* connection -> the events put after its client left
    published,      \* the number of events the relay has accepted
    ppc,            \* request thread -> the step of receive_agent_data it is at
    ploc,           \* request thread -> the locals of its publish request
    presp,          \* request thread -> the response of its last publish
    \* enhanced_agent.py
    instructions,   \* EnhancedAssistant.instructions
    session_data,   \* EnhancedAssistant.session_data
    apc,            \* the step on_data_received is at
    packet,         \* the data packet it handles
    sent,           \* the messages handed to send_data_to_frontend, in order
    handled,        \* the agent as the packet found it, and how the handler ended
    emitted,        \* the events the session emitted, in order: their types
    tasks,          \* event -> the step the task that forwards it is at
    arrived         \* the events in the order the relay received them

supVars == <<agent_process, agent_status, procs, signals, pc, rstatus, resp>>

roomVars == <<active_rooms, remote_rooms, workers, rpc, rloc, rresp>>

relayVars == <<event_queues, queue, spc, held, connected, delivered, heartbeats,
               joined, idle, late, published, ppc, ploc, presp>>

handlerVars == <<instructions, session_data, apc, packet, sent, handled>>

forwardVars == <<emitted, tasks, arrived>>

agentVars == <<handlerVars, forwardVars>>

vars == <<supVars, roomVars, relayVars, agentVars>>

NoResp == [op |-> "none", status |-> "none", code |-> 0, pid |-> 0, was |-> "none"]

\* agent_process.poll() is None, for a handle that is not None
PollIsNone(p) == procs[p] = "alive"

\* `agent_process and agent_process.poll() is None`.  The global is never set
\* back to None, so the two reads of it in this expression see a handle at the
\* same time or not at all, and the expression is one step.
ProcessAlive == agent_process # 0 /\ PollIsNone(agent_process)

Spawned == {p \in Pids : procs[p] # "none"}
Live == {p \in Pids : procs[p] = "alive"}

\* The handle a successful Popen returns: a process that did not exist before.
NewPid == CHOOSE p \in Pids \ Spawned : \A q \in Pids \ Spawned : p <= q

\* Threads that may still call Popen in their present request.
Spawning == {t \in Threads : pc[t] \in {"start_check", "start_popen"}}

SupInit ==
    /\ agent_process = 0
    /\ agent_status = "stopped"
    /\ procs = [p \in Pids |-> "none"]
    /\ signals = {}
    /\ pc = [t \in Threads |-> "idle"]
    /\ rstatus = [t \in Threads |-> "none"]
    /\ resp = [t \in Threads |-> NoResp]

\* A request arrives at an idle thread.
Request(t, op, first) ==
    /\ pc[t] = "idle"
    /\ pc' = [pc EXCEPT ![t] = first]
    /\ resp' = [resp EXCEPT ![t] = [NoResp EXCEPT !.op = op, !.was = agent_status]]
    /\ UNCHANGED <<agent_process, agent_status, procs, signals, rstatus, roomVars, relayVars, agentVars>>

Return(t, status, code, pid) ==
    /\ pc' = [pc EXCEPT ![t] = "idle"]
    /\ resp' = [resp EXCEPT ![t] = [@ EXCEPT !.status = status, !.code = code, !.pid = pid]]

Goto(t, label) ==
    /\ pc' = [pc EXCEPT ![t] = label]
    /\ UNCHANGED resp

\* ------------------------------------------------------------ health_check
health_check(t) ==
    /\ pc[t] = "health"
    /\ Return(t, agent_status, 200, 0)
    /\ UNCHANGED <<agent_process, agent_status, procs, signals, rstatus, roomVars, relayVars, agentVars>>

\* ------------------------------------------------------------- start_agent
\* start_agent without its liveness test: every start spawns
start_agent_check_always_spawns(t) ==
    /\ pc[t] = "start_check"
    /\ Goto(t, "start_popen")
    /\ UNCHANGED <<agent_process, agent_status, procs, signals, rstatus, roomVars, relayVars, agentVars>>

\* line 33-34
start_agent_check(t) ==
    /\ pc[t] = "start_check"
    /\ IF ProcessAlive
          THEN Return(t, "already_running", 200, 0)
          ELSE Goto(t, "start_popen")
    /\ UNCHANGED <<agent_process, agent_status, procs, signals, rstatus, roomVars, relayVars, agentVars>>

\* line 38-40: Popen returns a handle to a new child
start_agent_popen(t) ==
    /\ pc[t] = "start_popen"
    /\ Pids \ Spawned # {}
    /\ procs' = [procs EXCEPT ![NewPid] = "alive"]
    /\ agent_process' = NewPid
    /\ Goto(t, "start_set_starting")
    /\ UNCHANGED <<agent_status, signals, rstatus, roomVars, relayVars, agentVars>>

\* line 38-40, 54-56: Popen raises (the command is missing, fork fails)
start_agent_popen_raises(t) ==
    /\ pc[t] = "start_popen"
    /\ agent_status' = "error"
    /\ Return(t, "error", 500, 0)
    /\ UNCHANGED <<agent_process, procs, signals, rstatus, roomVars, relayVars, agentVars>>

\* start_agent marking the agent running as soon as it is spawned
start_agent_set_starting_as_running(t) ==
    /\ pc[t] = "start_set_starting"
    /\ agent_status' = "running"
    /\ Goto(t, "start_poll")
    /\ UNCHANGED <<agent_process, procs, signals, rstatus, roomVars, relayVars, agentVars>>

\* line 42
start_agent_set_starting(t) ==
    /\ pc[t] = "start_set_starting"
    /\ agent_status' = "starting"
    /\ Goto(t, "start_poll")
    /\ UNCHANGED <<agent_process, procs, signals, rstatus, roomVars, relayVars, agentVars>>

\* start_agent reporting success without the re-poll
start_agent_poll_skipped(t) ==
    /\ pc[t] = "start_poll"
    /\ Goto(t, "start_set_running")
    /\ UNCHANGED <<agent_process, agent_status, procs, signals, rstatus, roomVars, relayVars, agentVars>>

\* line 45-47: the settle delay is over; re-poll
start_agent_poll(t) ==
    /\ pc[t] = "start_poll"
    /\ Goto(t, IF PollIsNone(agent_process) THEN "start_set_running" ELSE "start_set_failed")
    /\ UNCHANGED <<agent_process, agent_status, procs, signals, rstatus, roomVars, relayVars, agentVars>>

\* line 48-49
start_agent_set_running(t) ==
    /\ pc[t] = "start_set_running"
    /\ agent_status' = "running"
    /\ Return(t, "started", 200, 0)
    /\ UNCHANGED <<agent_process, procs, signals, rstatus, roomVars, relayVars, agentVars>>

\* line 51-52
start_agent_set_failed(t) ==
    /\ pc[t] = "start_set_failed"
    /\ agent_status' = "failed"
    /\ Return(t, "error", 500, 0)
    /\ UNCHANGED <<agent_process, procs, signals, rstatus, roomVars, relayVars, agentVars>>

\* -------------------------------------------------------------- stop_agent
\* line 63
stop_agent_check(t) ==
    /\ pc[t] = "stop_check"
    /\ Goto(t, IF ProcessAlive THEN "stop_terminate" ELSE "stop_else")
    /\ UNCHANGED <<agent_process, agent_status, procs, signals, rstatus, roomVars, relayVars, agentVars>>

\* line 64: agent_process.terminate()
stop_agent_terminate(t) ==
    /\ pc[t] = "stop_terminate"
    /\ signals' = signals \cup {agent_process}
    /\ Goto(t, "stop_wait")
    /\ UNCHANGED <<agent_process, agent_status, procs, rstatus, roomVars, relayVars, agentVars>>

\* stop_agent without the blocking wait
stop_agent_wait_nonblocking(t) ==
    /\ pc[t] = "stop_wait"
    /\ Goto(t, "stop_set_stopped")
    /\ UNCHANGED <<agent_process, agent_status, procs, signals, rstatus, roomVars, relayVars, agentVars>>

\* stop_agent with wait(timeout=...): a child still alive when the timeout
\* passes raises TimeoutExpired, which the handler answers as an error
stop_agent_wait_with_timeout(t) ==
    /\ pc[t] = "stop_wait"
    /\ IF procs[agent_process] = "exited"
          THEN Goto(t, "stop_set_stopped") /\ UNCHANGED agent_status
          ELSE agent_status' = "error" /\ Return(t, "error", 500, 0)
    /\ UNCHANGED <<agent_process, procs, signals, rstatus, roomVars, relayVars, agentVars>>

\* line 65: Popen.wait() returns once the child has exited, and not before
stop_agent_wait(t) ==
    /\ pc[t] = "stop_wait"
    /\ procs[agent_process] = "exited"
    /\ Goto(t, "stop_set_stopped")
    /\ UNCHANGED <<agent_process, agent_status, procs, signals, rstatus, roomVars, relayVars, agentVars>>

\* line 66-67
stop_agent_set_stopped(t) ==
    /\ pc[t] = "stop_set_stopped"
    /\ agent_status' = "stopped"
    /\ Return(t, "stopped", 200, 0)
    /\ UNCHANGED <<agent_process, procs, signals, rstatus, roomVars, relayVars, agentVars>>

\* stop_agent whose else branch forgets to normalise the status
stop_agent_else_keeps_status(t) ==
    /\ pc[t] = "stop_else"
    /\ Return(t, "not_running", 200, 0)
    /\ UNCHANGED <<agent_process, agent_status, procs, signals, rstatus, roomVars, relayVars, agentVars>>

\* line 69-70
stop_agent_else(t) ==
    /\ pc[t] = "stop_else"
    /\ agent_status' = "stopped"
    /\ Return(t, "not_running", 200, 0)
    /\ UNCHANGED <<agent_process, procs, signals, rstatus, roomVars, relayVars, agentVars>>

\* -------------------------------------------------------- get_agent_status
\* line 78-79
get_agent_status_check(t) ==
    /\ pc[t] = "status_check"
    /\ Goto(t, IF agent_process = 0 THEN "status_read"
               ELSE IF PollIsNone(agent_process) THEN "status_set_running"
               ELSE "status_set_stopped")
    /\ UNCHANGED <<agent_process, agent_status, procs, signals, rstatus, roomVars, relayVars, agentVars>>

\* line 80
get_agent_status_set_running(t) ==
    /\ pc[t] = "status_set_running"
    /\ agent_status' = "running"
    /\ Goto(t, "status_read")
    /\ UNCHANGED <<agent_process, procs, signals, rstatus, roomVars, relayVars, agentVars>>

\* line 82
get_agent_status_set_stopped(t) ==
    /\ pc[t] = "status_set_stopped"
    /\ agent_status' = "stopped"
    /\ Goto(t, "status_read")
    /\ UNCHANGED <<agent_process, procs, signals, rstatus, roomVars, relayVars, agentVars>>

\* line 85: 'status': agent_status
get_agent_status_read(t) ==
    /\ pc[t] = "status_read"
    /\ rstatus' = [rstatus EXCEPT ![t] = agent_status]
    /\ Goto(t, "status_pid")
    /\ UNCHANGED <<agent_process, agent_status, procs, signals, roomVars, relayVars, agentVars>>

\* line 86: the process is polled again for 'process_id'
ProcessId == IF ProcessAlive THEN agent_process ELSE 0

\* line 84-87
get_agent_status_pid(t) ==
    /\ pc[t] = "status_pid"
    /\ Return(t, rstatus[t], 200, ProcessId)
    /\ rstatus' = [rstatus EXCEPT ![t] = "none"]
    /\ UNCHANGED <<agent_process, agent_status, procs, signals, roomVars, relayVars, agentVars>>

\* ---------------------------------------------------------- the environment
\* The child exits: on its own, or because it was signalled.
ProcessExit(p) ==
    /\ procs[p] = "alive"
    /\ procs' = [procs EXCEPT ![p] = "exited"]
    /\ UNCHANGED <<agent_process, agent_status, signals, pc, rstatus, resp, roomVars, relayVars, agentVars>>

\* Requests arrive.  A start request is taken only while a handle is left for it.
RequestStart(t) ==
    /\ Cardinality(Spawned) + Cardinality(Spawning) < MaxProcs
    /\ Request(t, "start", "start_check")

RequestStop(t) == Request(t, "stop", "stop_check")

RequestStatus(t) == Request(t, "status", "status_check")

RequestHealth(t) == Request(t, "health", "health")

Handle(t) ==
    \/ RequestStart(t)
    \/ RequestStop(t)
    \/ RequestStatus(t)
    \/ RequestHealth(t)
    \/ health_check(t)
    \/ start_agent_check(t)
    \/ start_agent_popen(t)
    \/ start_agent_popen_raises(t)
    \/ start_agent_set_starting(t)
    \/ start_agent_poll(t)
    \/ start_agent_set_running(t)
    \/ start_agent_set_failed(t)
    \/ stop_agent_check(t)
    \/ stop_agent_terminate(t)
    \/ stop_agent_wait(t)
    \/ stop_agent_set_stopped(t)
    \/ stop_agent_else(t)
    \/ get_agent_status_check(t)
    \/ get_agent_status_set_running(t)
    \/ get_agent_status_set_stopped(t)
    \/ get_agent_status_read(t)
    \/ get_agent_status_pid(t)

\* ================================================== room_manager.py: model
\* Number of agent workers the room manager may start in one run.
MaxWorkers == 3

\* room_manager.py:79, token.ttl
TokenTtl == 3600

WorkerIds == 1..MaxWorkers

\* Python's None, where a value may be a string of characters or None.
None == <<"None">>

\* Strings the code builds or inspects are sequences of characters.
Hex == {"0", "1", "2", "3", "4", "5", "6", "7", "8", "9", "a", "b", "c", "d", "e", "f"}

Rep(c, n) == [i \in 1..n |-> c]

\* uuid.uuid4().hex: 32 hex digits.  Two of the values agree on their first
\* eight digits, so generated names can collide.
UUIDs ==
    { <<"3", "f", "a", "0", "9", "c", "1", "e">> \o Rep("7", 24),
      <<"3", "f", "a", "0", "9", "c", "1", "e">> \o Rep("b", 24),
      <<"0", "0", "d", "4", "4", "2", "a", "9">> \o Rep("5", 24) }

\* uuid.uuid4().hex[:6], a truncation two digits short
Hex6(u) == SubSeq(u, 1, 6)

\* uuid.uuid4().hex[:8]
Hex8(u) == SubSeq(u, 1, 8)

RoomPrefix == <<"v", "o", "i", "c", "e", "_", "r", "o", "o", "m", "_">>
UserPrefix == <<"u", "s", "e", "r", "_">>

\* line 39: f"voice_room_{uuid.uuid4().hex[:8]}"
RoomName(u) == RoomPrefix \o Hex8(u)

\* line 40: f"user_{uuid.uuid4().hex[:8]}"
ParticipantIdentity(u) == UserPrefix \o Hex8(u)

\* A room name no uuid of the model generates.
UnknownRoom == RoomPrefix \o Rep("e", 8)

\* JSON objects are functions from their keys; request.get_json() gives one,
\* or None when the request carries no JSON body.
EmptyDict == [k \in {} |-> ""]
JsonNull == [isnull |-> TRUE, dict |-> EmptyDict]
Json(d) == [isnull |-> FALSE, dict |-> d]

\* dict.get(key, default)
DictGet(d, key, default) == IF key \in DOMAIN d THEN d[key] ELSE default

\* `x or {}` and `not x` for a JSON body
BodyOrEmpty(body) == IF body.isnull \/ body.dict = EmptyDict THEN EmptyDict ELSE body.dict

\* `not room_name`
Falsy(name) == name = None \/ name = <<>>

UserNames == {"Alice", "Bob"}

CreateBodies ==
    {JsonNull, Json(EmptyDict)} \cup {Json([user_name |-> n]) : n \in UserNames}

EndNames == {RoomName(u) : u \in UUIDs} \cup {UnknownRoom, <<>>}

EndBodies ==
    {JsonNull, Json(EmptyDict)} \cup {Json([room_name |-> n]) : n \in EndNames}

\* line 74-90: AccessToken(...).to_jwt(), a non-empty encoding of the grant
create_participant_token(identity, name, room_name) ==
    << "jwt",
       [identity |-> identity, name |-> name, ttl |-> TokenTtl,
        grant |-> [room_join |-> TRUE, room |-> room_name, can_publish |-> TRUE,
                   can_subscribe |-> TRUE, can_publish_data |-> TRUE]] >>

NoSession ==
    [room_name |-> None, participant_token |-> <<>>, participant_name |-> "",
     participant_identity |-> None]

NoRoomResp ==
    [op |-> "none", code |-> 0, success |-> FALSE, session |-> NoSession,
     active_sessions |-> <<>>, count |-> 0, prev |-> None, prev_end |-> None]

\* The locals of a request.  body is the request's JSON; calls is the log of the
\* calls the request made to the worker and the room service, failed the step
\* that raised, found whether cleanup_room found the room registered, and snap
\* the registry as the request found it.
NoLocals ==
    [body |-> JsonNull, user_name |-> "", room_name |-> None, identity |-> None,
     token |-> <<>>, worker |-> 0, calls |-> <<>>, failed |-> "none",
     found |-> FALSE, snap |-> EmptyDict]

RoomsInit ==
    /\ active_rooms = EmptyDict
    /\ remote_rooms = {}
    /\ workers = [w \in WorkerIds |-> "none"]
    /\ rpc = [t \in Threads |-> "idle"]
    /\ rloc = [t \in Threads |-> NoLocals]
    /\ rresp = [t \in Threads |-> NoRoomResp]

\* The room a request's previous response named, if that created a session.
Created(t) ==
    IF rresp[t].op = "create" /\ rresp[t].success THEN rresp[t].session.room_name ELSE None

\* The room a request's previous response ended: an end request that found the
\* room registered and answered success.
Ended(t) ==
    IF rresp[t].op = "end" /\ rresp[t].success /\ rloc[t].found
       THEN rloc[t].room_name ELSE None

RoomRequest(t, op, body, first) ==
    /\ rpc[t] = "idle"
    /\ rpc' = [rpc EXCEPT ![t] = first]
    /\ rloc' = [rloc EXCEPT ![t] = [NoLocals EXCEPT !.body = body, !.snap = active_rooms]]
    /\ rresp' = [rresp EXCEPT ![t] = [NoRoomResp EXCEPT !.op = op, !.prev = Created(t),
                                                           !.prev_end = Ended(t)]]
    /\ UNCHANGED <<active_rooms, remote_rooms, workers, supVars, relayVars, agentVars>>

RoomGoto(t, label) == rpc' = [rpc EXCEPT ![t] = label]

\* return jsonify({'success': ...}), code
RoomReturn(t, code, success) ==
    /\ rpc' = [rpc EXCEPT ![t] = "idle"]
    /\ rresp' = [rresp EXCEPT ![t] = [@ EXCEPT !.code = code, !.success = success]]

\* except Exception as e: return jsonify({'success': False, ...}), 500
RoomRaise(t, step) ==
    /\ RoomReturn(t, 500, FALSE)
    /\ rloc' = [rloc EXCEPT ![t].failed = step]

Call(t, what, ok) == Append(rloc[t].calls, [call |-> what, ok |-> ok])

\* ---------------------------------------------------- create_voice_session
\* line 162-163
create_voice_session_parse(t) ==
    /\ rpc[t] = "create_parse"
    /\ rloc' = [rloc EXCEPT ![t].user_name =
                    DictGet(BodyOrEmpty(rloc[t].body), "user_name", "User")]
    /\ RoomGoto(t, "create_names")
    /\ UNCHANGED <<active_rooms, remote_rooms, workers, rresp, supVars, relayVars, agentVars>>

\* line 39-40
create_room_with_agent_names(t) ==
    /\ rpc[t] = "create_names"
    /\ \E u1 \in UUIDs, u2 \in UUIDs :
          rloc' = [rloc EXCEPT ![t].room_name = RoomName(u1),
                               ![t].identity = ParticipantIdentity(u2)]
    /\ RoomGoto(t, "create_room")
    /\ UNCHANGED <<active_rooms, remote_rooms, workers, rresp, supVars, relayVars, agentVars>>

\* line 44-46: the room service creates the room
create_room_with_agent_create_room(t) ==
    /\ rpc[t] = "create_room"
    /\ remote_rooms' = remote_rooms \cup {rloc[t].room_name}
    /\ rloc' = [rloc EXCEPT ![t].calls = Call(t, "create_room", TRUE)]
    /\ RoomGoto(t, "create_token")
    /\ UNCHANGED <<active_rooms, workers, rresp, supVars, relayVars, agentVars>>

\* line 44-46, 71-72, 179-183: the room service call raises
create_room_with_agent_create_room_raises(t) ==
    /\ rpc[t] = "create_room"
    /\ RoomReturn(t, 500, FALSE)
    /\ rloc' = [rloc EXCEPT ![t].failed = "create_room",
                            ![t].calls = Call(t, "create_room", FALSE)]
    /\ UNCHANGED <<active_rooms, remote_rooms, workers, supVars, relayVars, agentVars>>

\* line 49-51
create_room_with_agent_token(t) ==
    /\ rpc[t] = "create_token"
    /\ rloc' = [rloc EXCEPT ![t].token =
                    create_participant_token(rloc[t].identity, rloc[t].user_name,
                                             rloc[t].room_name)]
    /\ RoomGoto(t, "create_worker")
    /\ UNCHANGED <<active_rooms, remote_rooms, workers, rresp, supVars, relayVars, agentVars>>

\* line 49-51, 71-72, 179-183: signing raises (the key or the secret is unset)
create_room_with_agent_token_raises(t) ==
    /\ rpc[t] = "create_token"
    /\ RoomRaise(t, "create_token")
    /\ UNCHANGED <<active_rooms, remote_rooms, workers, supVars, relayVars, agentVars>>

NewWorker == CHOOSE w \in WorkerIds : workers[w] = "none" /\ \A v \in 1..(w - 1) : workers[v] # "none"

\* line 54, 92-119: the worker is built and its thread started
start_agent_in_room(t) ==
    /\ rpc[t] = "create_worker"
    /\ \E w \in WorkerIds : workers[w] = "none"
    /\ workers' = [workers EXCEPT ![NewWorker] = "running"]
    /\ rloc' = [rloc EXCEPT ![t].worker = NewWorker]
    /\ RoomGoto(t, "create_track")
    /\ UNCHANGED <<active_rooms, remote_rooms, rresp, supVars, relayVars, agentVars>>

\* a start_agent_in_room that registers the room before its worker is up
start_agent_in_room_raises_registered(t) ==
    /\ rpc[t] = "create_worker"
    /\ active_rooms' = [n \in DOMAIN active_rooms \cup {rloc[t].room_name} |->
                          IF n = rloc[t].room_name
                             THEN [room |-> n, agent_worker |-> 0]
                             ELSE active_rooms[n]]
    /\ RoomRaise(t, "start_agent_in_room")
    /\ UNCHANGED <<remote_rooms, workers, supVars, relayVars, agentVars>>

\* line 54, 121-122, 71-72, 179-183: building or starting the worker raises
start_agent_in_room_raises(t) ==
    /\ rpc[t] = "create_worker"
    /\ RoomRaise(t, "start_agent_in_room")
    /\ UNCHANGED <<active_rooms, remote_rooms, workers, supVars, relayVars, agentVars>>

\* active_rooms[name] = value
DictSet(d, name, value) ==
    [n \in DOMAIN d \cup {name} |-> IF n = name THEN value ELSE d[n]]

\* del active_rooms[name]
DictDel(d, name) == [n \in DOMAIN d \ {name} |-> d[n]]

\* line 57-69, 173-177
create_room_with_agent_track(t) ==
    /\ rpc[t] = "create_track"
    /\ active_rooms' = DictSet(active_rooms, rloc[t].room_name,
                               [room |-> rloc[t].room_name, agent_worker |-> rloc[t].worker])
    /\ rpc' = [rpc EXCEPT ![t] = "idle"]
    /\ rresp' = [rresp EXCEPT ![t] =
                    [@ EXCEPT !.code = 200, !.success = TRUE,
                              !.session = [room_name |-> rloc[t].room_name,
                                           participant_token |-> rloc[t].token,
                                           participant_name |-> rloc[t].user_name,
                                           participant_identity |-> rloc[t].identity]]]
    /\ UNCHANGED <<remote_rooms, workers, rloc, supVars, relayVars, agentVars>>

\* ------------------------------------------------------- end_voice_session
\* line 189-193
end_voice_session_parse(t) ==
    /\ rpc[t] = "end_parse"
    /\ IF rloc[t].body.isnull
          THEN \* None.get raises AttributeError: line 206-210
               RoomRaise(t, "parse")
          ELSE LET name == DictGet(rloc[t].body.dict, "room_name", None) IN
               IF Falsy(name)
                  THEN RoomReturn(t, 400, FALSE) /\ UNCHANGED rloc
                  ELSE /\ RoomGoto(t, "cleanup_check")
                       /\ rloc' = [rloc EXCEPT ![t].room_name = name]
                       /\ UNCHANGED rresp
    /\ UNCHANGED <<active_rooms, remote_rooms, workers, supVars, relayVars, agentVars>>

\* a cleanup_room that reads the registry without testing membership first
cleanup_room_check_skipped(t) ==
    /\ rpc[t] = "cleanup_check"
    /\ RoomGoto(t, "cleanup_read")
    /\ rloc' = [rloc EXCEPT ![t].found = TRUE]
    /\ UNCHANGED <<rresp, active_rooms, remote_rooms, workers, supVars, relayVars, agentVars>>

\* line 126, and 199-204 when the room is not registered
cleanup_room_check(t) ==
    /\ rpc[t] = "cleanup_check"
    /\ IF rloc[t].room_name \in DOMAIN active_rooms
          THEN /\ RoomGoto(t, "cleanup_read")
               /\ rloc' = [rloc EXCEPT ![t].found = TRUE]
               /\ UNCHANGED rresp
          ELSE RoomReturn(t, 200, TRUE) /\ UNCHANGED rloc
    /\ UNCHANGED <<active_rooms, remote_rooms, workers, supVars, relayVars, agentVars>>

\* line 127: room_data = active_rooms[room_name]
cleanup_room_read(t) ==
    /\ rpc[t] = "cleanup_read"
    /\ IF rloc[t].room_name \in DOMAIN active_rooms
          THEN /\ RoomGoto(t, "cleanup_shutdown")
               /\ rloc' = [rloc EXCEPT ![t].worker =
                              active_rooms[rloc[t].room_name].agent_worker]
               /\ UNCHANGED rresp
          ELSE \* KeyError: line 206-210
               RoomRaise(t, "cleanup_read")
    /\ UNCHANGED <<active_rooms, remote_rooms, workers, supVars, relayVars, agentVars>>

\* a cleanup_room that lets a failed shutdown propagate
cleanup_room_shutdown_propagates(t) ==
    /\ rpc[t] = "cleanup_shutdown"
    /\ \E ok \in BOOLEAN :
          IF ok
             THEN /\ workers' = [workers EXCEPT ![rloc[t].worker] = "shutdown"]
                  /\ rloc' = [rloc EXCEPT ![t].calls = Call(t, "shutdown", TRUE)]
                  /\ RoomGoto(t, "cleanup_delete")
                  /\ UNCHANGED rresp
             ELSE /\ rloc' = [rloc EXCEPT ![t].calls = Call(t, "shutdown", FALSE),
                                          ![t].failed = "shutdown"]
                  /\ RoomReturn(t, 500, FALSE)
                  /\ UNCHANGED workers
    /\ UNCHANGED <<active_rooms, remote_rooms, supVars, relayVars, agentVars>>

\* line 130-134: the worker shuts down, or shutdown raises and is swallowed
cleanup_room_shutdown(t) ==
    /\ rpc[t] = "cleanup_shutdown"
    /\ \E ok \in BOOLEAN :
          /\ workers' = IF ok THEN [workers EXCEPT ![rloc[t].worker] = "shutdown"]
                              ELSE workers
          /\ rloc' = [rloc EXCEPT ![t].calls = Call(t, "shutdown", ok)]
    /\ RoomGoto(t, "cleanup_delete")
    /\ UNCHANGED <<active_rooms, remote_rooms, rresp, supVars, relayVars, agentVars>>

\* line 137-142: the room service deletes the room, or the call raises and is
\* swallowed
cleanup_room_delete(t) ==
    /\ rpc[t] = "cleanup_delete"
    /\ \E ok \in BOOLEAN :
          /\ remote_rooms' = IF ok THEN remote_rooms \ {rloc[t].room_name}
                                   ELSE remote_rooms
          /\ rloc' = [rloc EXCEPT ![t].calls = Call(t, "delete_room", ok)]
    /\ RoomGoto(t, "cleanup_del")
    /\ UNCHANGED <<active_rooms, workers, rresp, supVars, relayVars, agentVars>>

\* line 145, 199-204
cleanup_room_del(t) ==
    /\ rpc[t] = "cleanup_del"
    /\ IF rloc[t].room_name \in DOMAIN active_rooms
          THEN /\ active_rooms' = DictDel(active_rooms, rloc[t].room_name)
               /\ RoomReturn(t, 200, TRUE)
               /\ UNCHANGED rloc
          ELSE \* KeyError: line 206-210
               /\ RoomRaise(t, "cleanup_del")
               /\ UNCHANGED active_rooms
    /\ UNCHANGED <<remote_rooms, workers, supVars, relayVars, agentVars>>

\* ---------------------------------------------------- list_active_sessions
RECURSIVE DictKeys(_)
\* the keys of a dict, in the order the loop of line 216 visits them
DictKeys(d) ==
    IF DOMAIN d = {} THEN <<>>
    ELSE LET k == CHOOSE x \in DOMAIN d : TRUE
         IN <<k>> \o DictKeys(DictDel(d, k))

\* line 215-221: one entry per registered room
Sessions(d) == [i \in 1..Len(DictKeys(d)) |-> [room_name |-> DictKeys(d)[i]]]

\* line 215-226
list_active_sessions(t) ==
    /\ rpc[t] = "list"
    /\ rpc' = [rpc EXCEPT ![t] = "idle"]
    /\ rresp' = [rresp EXCEPT ![t] =
                    [@ EXCEPT !.code = 200, !.success = TRUE,
                              !.active_sessions = Sessions(active_rooms),
                              !.count = Len(Sessions(active_rooms))]]
    /\ UNCHANGED <<active_rooms, remote_rooms, workers, rloc, supVars, relayVars, agentVars>>

\* line 108-114: worker.start() runs in a daemon thread of its own; when it
\* fails there, the thread ends and nothing is raised in any request.
run_worker_fails(w) ==
    /\ workers[w] = "running"
    /\ workers' = [workers EXCEPT ![w] = "failed"]
    /\ UNCHANGED <<active_rooms, remote_rooms, rpc, rloc, rresp, supVars, relayVars, agentVars>>

\* ------------------------------------------------------------ the requests
\* A create request is taken only while a worker handle is left for it.
Creating == {t \in Threads : rpc[t] \in {"create_parse", "create_names", "create_room",
                                         "create_token", "create_worker"}}

RequestCreate(t) ==
    /\ Cardinality({w \in WorkerIds : workers[w] # "none"}) + Cardinality(Creating) < MaxWorkers
    /\ \E body \in CreateBodies : RoomRequest(t, "create", body, "create_parse")

RequestEnd(t) == \E body \in EndBodies : RoomRequest(t, "end", body, "end_parse")

RequestList(t) == RoomRequest(t, "list", JsonNull, "list")

RoomHandle(t) ==
    \/ RequestCreate(t)
    \/ RequestEnd(t)
    \/ RequestList(t)
    \/ create_voice_session_parse(t)
    \/ create_room_with_agent_names(t)
    \/ create_room_with_agent_create_room(t)
    \/ create_room_with_agent_create_room_raises(t)
    \/ create_room_with_agent_token(t)
    \/ create_room_with_agent_token_raises(t)
    \/ start_agent_in_room(t)
    \/ start_agent_in_room_raises(t)
    \/ create_room_with_agent_track(t)
    \/ end_voice_session_parse(t)
    \/ cleanup_room_check(t)
    \/ cleanup_room_read(t)
    \/ cleanup_room_shutdown(t)
    \/ cleanup_room_delete(t)
    \/ cleanup_room_del(t)
    \/ list_active_sessions(t)

\* ============================================ flask_server.py: event relay
\* Number of client connections to /api/stream in one run.
NConns == 2
\* Number of events posted to /api/agent/data in one run.
MaxEvents == 3
\* Number of heartbeats one connection is sent in one run.
MaxHeartbeats == 1

\* flask_server.py:104, queue.Queue() takes maxsize=0: no upper bound
QueueMaxsize == 0

Conns == 1..NConns

\* Events are numbered in the order the relay accepts them; a chunk written to
\* a client is an event or the heartbeat of line 115.
Heartbeat == 0
NoChunk == -1

\* queue.Queue.put_nowait raises queue.Full when 0 < maxsize <= qsize()
Full(q) == QueueMaxsize > 0 /\ Len(q) >= QueueMaxsize

\* event_queues.remove(client_queue)
Remove(list, c) == SelectSeq(list, LAMBDA x : x # c)

\* client_queue in event_queues
Registered(c) == \E i \in 1..Len(event_queues) : event_queues[i] = c

\* puts counts the queues the request has enqueued its event on.
NoPublish == [event |-> 0, targets |-> <<>>, i |-> 1, puts |-> 0]
NoPubResp == [status |-> "none", code |-> 0, clients_notified |-> 0]

RelayInit ==
    /\ event_queues = <<>>
    /\ queue = [c \in Conns |-> <<>>]
    /\ spc = [c \in Conns |-> "none"]
    /\ held = [c \in Conns |-> NoChunk]
    /\ connected = [c \in Conns |-> FALSE]
    /\ delivered = [c \in Conns |-> <<>>]
    /\ heartbeats = [c \in Conns |-> 0]
    /\ joined = [c \in Conns |-> 0]
    /\ idle = [c \in Conns |-> FALSE]
    /\ late = [c \in Conns |-> 0]
    /\ published = 0
    /\ ppc = [t \in Threads |-> "idle"]
    /\ ploc = [t \in Threads |-> NoPublish]
    /\ presp = [t \in Threads |-> NoPubResp]

\* ----------------------------------------------------------- event_stream
\* an event_stream that starts a new client with the events already published
event_stream_register_replays(c) ==
    /\ spc[c] = "none"
    /\ \A d \in 1..(c - 1) : spc[d] # "none"
    /\ event_queues' = Append(event_queues, c)
    /\ queue' = [queue EXCEPT ![c] = [k \in 1..published |-> k]]
    /\ spc' = [spc EXCEPT ![c] = "get"]
    /\ connected' = [connected EXCEPT ![c] = TRUE]
    /\ joined' = [joined EXCEPT ![c] = published]
    /\ idle' = [idle EXCEPT ![c] = TRUE]
    /\ UNCHANGED <<held, delivered, heartbeats, late, published, ppc, ploc, presp,
                   supVars, roomVars, agentVars>>

\* line 100-105: a client opens /api/stream; its generator creates the queue
\* and registers it.  Connections are numbered in the order they are opened.
event_stream_register(c) ==
    /\ spc[c] = "none"
    /\ \A d \in 1..(c - 1) : spc[d] # "none"
    /\ event_queues' = Append(event_queues, c)
    /\ spc' = [spc EXCEPT ![c] = "get"]
    /\ connected' = [connected EXCEPT ![c] = TRUE]
    /\ joined' = [joined EXCEPT ![c] = published]
    /\ idle' = [idle EXCEPT ![c] = TRUE]
    /\ UNCHANGED <<queue, held, delivered, heartbeats, late, published, ppc, ploc, presp,
                   supVars, roomVars, agentVars>>

\* a get that returns the newest event, not the oldest
event_stream_get_newest(c) ==
    /\ spc[c] = "get"
    /\ queue[c] # <<>>
    /\ held' = [held EXCEPT ![c] = queue[c][Len(queue[c])]]
    /\ queue' = [queue EXCEPT ![c] = SubSeq(queue[c], 1, Len(queue[c]) - 1)]
    /\ spc' = [spc EXCEPT ![c] = "yield"]
    /\ UNCHANGED <<event_queues, connected, delivered, heartbeats, joined, idle, late,
                   published, ppc, ploc, presp, supVars, roomVars, agentVars>>

\* line 111: client_queue.get(timeout=30) returns the oldest event
event_stream_get(c) ==
    /\ spc[c] = "get"
    /\ queue[c] # <<>>
    /\ held' = [held EXCEPT ![c] = Head(queue[c])]
    /\ queue' = [queue EXCEPT ![c] = Tail(queue[c])]
    /\ spc' = [spc EXCEPT ![c] = "yield"]
    /\ UNCHANGED <<event_queues, connected, delivered, heartbeats, joined, idle, late,
                   published, ppc, ploc, presp, supVars, roomVars, agentVars>>

\* a get that gives up although an event is waiting
event_stream_empty_early(c) ==
    /\ spc[c] = "get"
    /\ heartbeats[c] < MaxHeartbeats
    /\ held' = [held EXCEPT ![c] = Heartbeat]
    /\ heartbeats' = [heartbeats EXCEPT ![c] = @ + 1]
    /\ spc' = [spc EXCEPT ![c] = "yield"]
    /\ UNCHANGED <<event_queues, queue, connected, delivered, joined, idle, late,
                   published, ppc, ploc, presp, supVars, roomVars, agentVars>>

\* line 111, 113-115: the timeout of get passes with the queue still empty,
\* get raises queue.Empty and the generator builds a heartbeat
event_stream_empty(c) ==
    /\ spc[c] = "get"
    /\ queue[c] = <<>>
    /\ heartbeats[c] < MaxHeartbeats
    /\ held' = [held EXCEPT ![c] = Heartbeat]
    /\ heartbeats' = [heartbeats EXCEPT ![c] = @ + 1]
    /\ spc' = [spc EXCEPT ![c] = "yield"]
    /\ UNCHANGED <<event_queues, queue, connected, delivered, joined, idle, late,
                   published, ppc, ploc, presp, supVars, roomVars, agentVars>>

\* an event_stream whose generator leaves its queue registered when it is closed
event_stream_yield_no_cleanup(c) ==
    /\ spc[c] = "yield"
    /\ held' = [held EXCEPT ![c] = NoChunk]
    /\ IF connected[c]
          THEN /\ delivered' = [delivered EXCEPT ![c] = Append(@, held[c])]
               /\ spc' = [spc EXCEPT ![c] = "get"]
               /\ idle' = [idle EXCEPT ![c] = TRUE]
          ELSE /\ spc' = [spc EXCEPT ![c] = "closed"]
               /\ UNCHANGED <<delivered, idle>>
    /\ UNCHANGED <<event_queues, queue, connected, heartbeats, joined, late, published,
                   ppc, ploc, presp, supVars, roomVars, agentVars>>

\* line 112, 115: the chunk is yielded and written to the client, and the
\* generator goes back to get.  Line 120-122: writing to a client that has
\* gone fails, the server closes the generator and its finally block removes
\* the queue from event_queues.
event_stream_yield(c) ==
    /\ spc[c] = "yield"
    /\ held' = [held EXCEPT ![c] = NoChunk]
    /\ IF connected[c]
          THEN /\ delivered' = [delivered EXCEPT ![c] = Append(@, held[c])]
               /\ spc' = [spc EXCEPT ![c] = "get"]
               /\ idle' = [idle EXCEPT ![c] = TRUE]
               /\ UNCHANGED event_queues
          ELSE /\ event_queues' = Remove(event_queues, c)
               /\ spc' = [spc EXCEPT ![c] = "closed"]
               /\ UNCHANGED <<delivered, idle>>
    /\ UNCHANGED <<queue, connected, heartbeats, joined, late, published,
                   ppc, ploc, presp, supVars, roomVars, agentVars>>

\* The client closes the connection, or it is lost.
client_disconnects(c) ==
    /\ spc[c] \in {"get", "yield"}
    /\ connected[c]
    /\ connected' = [connected EXCEPT ![c] = FALSE]
    /\ UNCHANGED <<event_queues, queue, spc, held, delivered, heartbeats, joined, idle,
                   late, published, ppc, ploc, presp, supVars, roomVars, agentVars>>

\* ------------------------------------------------------ receive_agent_data
\* A POST /api/agent/data arrives.
RequestPublish(t) ==
    /\ ppc[t] = "idle"
    /\ published < MaxEvents
    /\ ppc' = [ppc EXCEPT ![t] = "copy"]
    /\ ploc' = [ploc EXCEPT ![t] = NoPublish]
    /\ presp' = [presp EXCEPT ![t] = NoPubResp]
    /\ UNCHANGED <<event_queues, queue, spc, held, connected, delivered, heartbeats,
                   joined, idle, late, published, supVars, roomVars, agentVars>>

\* line 139, 142: the event is read and the loop copies event_queues
receive_agent_data_copy(t) ==
    /\ ppc[t] = "copy"
    /\ published' = published + 1
    /\ ploc' = [ploc EXCEPT ![t] = [event |-> published + 1, targets |-> event_queues,
                                    i |-> 1, puts |-> 0]]
    /\ ppc' = [ppc EXCEPT ![t] = IF event_queues = <<>> THEN "return" ELSE "put"]
    /\ UNCHANGED <<event_queues, queue, spc, held, connected, delivered, heartbeats,
                   joined, idle, late, presp, supVars, roomVars, agentVars>>

PubReturn(t, status, code, n) ==
    /\ ppc' = [ppc EXCEPT ![t] = "idle"]
    /\ presp' = [presp EXCEPT ![t] = [status |-> status, code |-> code,
                                      clients_notified |-> n]]

\* a publish that stops at the first queue of its copy
receive_agent_data_put_first_only(t) ==
    /\ ppc[t] = "put"
    /\ LET c == ploc[t].targets[ploc[t].i] IN
          /\ queue' = [queue EXCEPT ![c] = Append(@, ploc[t].event)]
          /\ idle' = [idle EXCEPT ![c] = FALSE]
          /\ late' = [late EXCEPT ![c] = IF connected[c] THEN @ ELSE @ + 1]
    /\ ploc' = [ploc EXCEPT ![t].i = @ + 1, ![t].puts = @ + 1]
    /\ ppc' = [ppc EXCEPT ![t] = "return"]
    /\ UNCHANGED <<event_queues, spc, held, connected, delivered, heartbeats, joined,
                   published, presp, supVars, roomVars, agentVars>>

\* line 142-147: one turn of the loop.  put_nowait enqueues the event, or
\* raises queue.Full and the queue is removed from event_queues; a remove of
\* a queue that is no longer in the list raises ValueError (line 150-151).
receive_agent_data_put(t) ==
    /\ ppc[t] = "put"
    /\ LET c == ploc[t].targets[ploc[t].i]
           more == ploc[t].i < Len(ploc[t].targets)
       IN IF ~Full(queue[c])
             THEN /\ queue' = [queue EXCEPT ![c] = Append(@, ploc[t].event)]
                  /\ idle' = [idle EXCEPT ![c] = FALSE]
                  /\ late' = [late EXCEPT ![c] = IF connected[c] THEN @ ELSE @ + 1]
                  /\ ploc' = [ploc EXCEPT ![t].i = @ + 1, ![t].puts = @ + 1]
                  /\ ppc' = [ppc EXCEPT ![t] = IF more THEN "put" ELSE "return"]
                  /\ UNCHANGED <<event_queues, presp>>
             ELSE IF Registered(c)
                     THEN /\ event_queues' = Remove(event_queues, c)
                          /\ ploc' = [ploc EXCEPT ![t].i = @ + 1]
                          /\ ppc' = [ppc EXCEPT ![t] = IF more THEN "put" ELSE "return"]
                          /\ UNCHANGED <<queue, idle, late, presp>>
                     ELSE /\ PubReturn(t, "error", 500, 0)
                          /\ UNCHANGED <<event_queues, queue, idle, late, ploc>>
    /\ UNCHANGED <<spc, held, connected, delivered, heartbeats, joined, published,
                   supVars, roomVars, agentVars>>

\* line 149
receive_agent_data_return(t) ==
    /\ ppc[t] = "return"
    /\ PubReturn(t, "received", 200, Len(event_queues))
    /\ UNCHANGED <<event_queues, queue, spc, held, connected, delivered, heartbeats,
                   joined, idle, late, published, ploc, supVars, roomVars, agentVars>>

Publish(t) ==
    \/ RequestPublish(t)
    \/ receive_agent_data_copy(t)
    \/ receive_agent_data_put(t)
    \/ receive_agent_data_return(t)

Stream(c) ==
    \/ event_stream_register(c)
    \/ event_stream_get(c)
    \/ event_stream_empty(c)
    \/ event_stream_yield(c)
    \/ client_disconnects(c)

\* The streams run each in a thread of its own, beside the thread that handles
\* the publish requests, one request at a time.
RelayNext ==
    \/ Publish(1)
    \/ \E c \in Conns : Stream(c)

\* ================================================= enhanced_agent.py: model
\* Number of data packets the agent receives in one run.
MaxPackets == 3

\* line 26: the instructions the agent is built with
DefaultInstructions == "You are a helpful voice AI assistant."

\* The values a frontend sends as instructions; the empty string is falsy.
InstructionTexts == {"", "Be brief.", "Answer in French."}

\* A data packet is its bytes: whether they decode as UTF-8, whether the text
\* then parses as JSON, and the value it parses to (an object, or a value of
\* another kind such as a list).
Bytes(utf8, json, isdict, dict) ==
    [utf8 |-> utf8, json |-> json, isdict |-> isdict, dict |-> dict]

Messages ==
    {EmptyDict, [type |-> "get_status"], [type |-> "get_conversation_history"],
     [type |-> "ping"], [type |-> "update_instructions"]}
    \cup {[type |-> "update_instructions", instructions |-> i] : i \in InstructionTexts}
    \cup {[type |-> "ping", instructions |-> "Be brief."]}

Packets ==
    {Bytes(FALSE, FALSE, FALSE, EmptyDict),    \* bytes that are not UTF-8
     Bytes(TRUE, FALSE, FALSE, EmptyDict),     \* text that is not JSON
     Bytes(TRUE, TRUE, FALSE, EmptyDict)}      \* JSON that is not an object
    \cup {Bytes(TRUE, TRUE, TRUE, m) : m \in Messages}

\* line 32: data.data.decode() raises UnicodeDecodeError on bytes that are not
\* UTF-8, json.loads raises JSONDecodeError on text that is not JSON
Loads(p) == [ok |-> p.utf8 /\ p.json, isdict |-> p.isdict, dict |-> p.dict]

\* line 33, 35, 43, 53: message.get("type") == ty
TypeIs(d, ty) == "type" \in DOMAIN d /\ d["type"] = ty

\* line 45-46: message.get("instructions"), and whether it is truthy
NewInstructions(d) == IF "instructions" \in DOMAIN d THEN d["instructions"] ELSE ""

\* line 57: self.session_data.get("messages", [])
History(sd) == IF "messages" \in DOMAIN sd THEN sd["messages"] ELSE <<>>

\* line 37-41, 48-51, 55-58: the responses
StatusResponse(sd) ==
    [type |-> "status_response", status |-> "active", session_data |-> sd]
InstructionsUpdated(i) == [type |-> "instructions_updated", instructions |-> i]
ConversationHistory(sd) == [type |-> "conversation_history", history |-> History(sd)]

NoPacket == Bytes(FALSE, FALSE, FALSE, EmptyDict)

AgentInit ==
    /\ instructions = DefaultInstructions
    /\ session_data = EmptyDict
    /\ apc = "idle"
    /\ packet = NoPacket
    /\ sent = <<>>
    /\ handled = [n |-> 0, instructions |-> DefaultInstructions,
                  session_data |-> EmptyDict, sent |-> <<>>, raised |-> FALSE]

\* line 110-114: a data packet arrives and its handler is started
data_received(p) ==
    /\ apc = "idle"
    /\ handled.n < MaxPackets
    /\ apc' = "handle"
    /\ packet' = p
    /\ handled' = [n |-> handled.n + 1, instructions |-> instructions,
                   session_data |-> session_data, sent |-> sent, raised |-> FALSE]
    /\ UNCHANGED <<instructions, session_data, sent, supVars, roomVars, relayVars, forwardVars>>

\* send_data_to_frontend(data) is called: line 37, 48, 55
SendToFrontend(data) ==
    /\ sent' = Append(sent, [data |-> data, room |-> "pending", flask |-> "pending"])
    /\ apc' = "publish_data"

\* an on_data_received without its try/except: what the payload raises
\* reaches the caller
on_data_received_unguarded ==
    /\ apc = "handle"
    /\ LET message == Loads(packet) IN
       IF ~message.ok \/ ~message.isdict
          THEN /\ apc' = "idle"
               /\ handled' = [handled EXCEPT !.raised = TRUE]
               /\ UNCHANGED <<instructions, sent>>
          ELSE /\ UNCHANGED handled
               /\ IF TypeIs(message.dict, "get_status")
                     THEN SendToFrontend(StatusResponse(session_data))
                          /\ UNCHANGED instructions
                  ELSE IF TypeIs(message.dict, "update_instructions")
                          /\ NewInstructions(message.dict) # ""
                     THEN /\ instructions' = NewInstructions(message.dict)
                          /\ SendToFrontend(
                                InstructionsUpdated(NewInstructions(message.dict)))
                  ELSE IF TypeIs(message.dict, "get_conversation_history")
                     THEN SendToFrontend(ConversationHistory(session_data))
                          /\ UNCHANGED instructions
                  ELSE apc' = "idle" /\ UNCHANGED <<instructions, sent>>
    /\ UNCHANGED <<session_data, packet, supVars, roomVars, relayVars, forwardVars>>

\* line 31-61, up to the call of send_data_to_frontend
on_data_received ==
    /\ apc = "handle"
    /\ LET message == Loads(packet) IN
       IF ~message.ok \/ ~message.isdict
          THEN \* decode or json.loads raised, or message.get raised
               \* AttributeError: line 60-61
               apc' = "idle" /\ UNCHANGED <<instructions, sent>>
          ELSE IF TypeIs(message.dict, "get_status")
                  THEN SendToFrontend(StatusResponse(session_data))
                       /\ UNCHANGED instructions
          ELSE IF TypeIs(message.dict, "update_instructions")
                  THEN IF NewInstructions(message.dict) # ""
                          THEN /\ instructions' = NewInstructions(message.dict)
                               /\ SendToFrontend(
                                     InstructionsUpdated(NewInstructions(message.dict)))
                          ELSE apc' = "idle" /\ UNCHANGED <<instructions, sent>>
          ELSE IF TypeIs(message.dict, "get_conversation_history")
                  THEN SendToFrontend(ConversationHistory(session_data))
                       /\ UNCHANGED instructions
          ELSE apc' = "idle" /\ UNCHANGED <<instructions, sent>>
    /\ UNCHANGED <<session_data, packet, handled, supVars, roomVars, relayVars, forwardVars>>

SetLast(field, value) == [sent EXCEPT ![Len(sent)] = [@ EXCEPT ![field] = value]]

\* line 65-69, 73-74: the message is published on the room's data channel; if
\* that raises, the exception is caught and the Flask server is not called
send_data_to_frontend_publish ==
    /\ apc = "publish_data"
    /\ \E ok \in BOOLEAN :
          IF ok THEN /\ sent' = SetLast("room", "ok")
                     /\ apc' = "post"
                ELSE /\ sent' = [sent EXCEPT ![Len(sent)] =
                                    [@ EXCEPT !.room = "failed", !.flask = "skipped"]]
                     /\ apc' = "idle"
    /\ UNCHANGED <<instructions, session_data, packet, handled,
                   supVars, roomVars, relayVars, forwardVars>>

\* line 72, 76-91: the message is posted to /api/agent/data; a failure is
\* caught inside send_to_flask_server
send_to_flask_server ==
    /\ apc = "post"
    /\ \E ok \in BOOLEAN : sent' = SetLast("flask", IF ok THEN "ok" ELSE "failed")
    /\ apc' = "idle"
    /\ UNCHANGED <<instructions, session_data, packet, handled,
                   supVars, roomVars, relayVars, forwardVars>>

\* One packet at a time: each handler runs to its end before the next starts.
AgentNext ==
    \/ \E p \in Packets : data_received(p)
    \/ on_data_received
    \/ send_data_to_frontend_publish
    \/ send_to_flask_server

\* ------------------------------------------- entrypoint: forwarded events
\* Number of events the session emits in one run.
MaxEmits == 3

EventIds == 1..MaxEmits

\* line 122, 133, 141: the types of the events the session's handlers forward
EventTypes == {"transcript", "agent_speech_started", "agent_speech_finished"}

ForwardInit ==
    /\ emitted = <<>>
    /\ tasks = [k \in EventIds |-> "none"]
    /\ arrived = <<>>

\* line 117-143: the session emits an event and its handler creates a task
\* that will run send_to_flask_server; the handler does not wait for it
session_emits(ty) ==
    /\ Len(emitted) < MaxEmits
    /\ emitted' = Append(emitted, ty)
    /\ tasks' = [tasks EXCEPT ![Len(emitted) + 1] = "scheduled"]
    /\ UNCHANGED <<arrived, handlerVars, supVars, roomVars, relayVars>>

\* line 78-80: the event loop runs its ready tasks in the order they were
\* created; the task opens a client session and a connection of its own and
\* waits in session.post
forward_task_start(k) ==
    /\ tasks[k] = "scheduled"
    /\ \A j \in 1..(k - 1) : tasks[j] # "scheduled"
    /\ tasks' = [tasks EXCEPT ![k] = "posting"]
    /\ UNCHANGED <<emitted, arrived, handlerVars, supVars, roomVars, relayVars>>

\* line 80-84, and flask_server.py:139: the request of one of the waiting
\* tasks reaches the relay, which reads its event
forward_task_post(k) ==
    /\ tasks[k] = "posting"
    /\ arrived' = Append(arrived, k)
    /\ tasks' = [tasks EXCEPT ![k] = "posted"]
    /\ UNCHANGED <<emitted, handlerVars, supVars, roomVars, relayVars>>

\* line 80-84, 90-91: the request fails and the exception is caught
forward_task_post_fails(k) ==
    /\ tasks[k] = "posting"
    /\ tasks' = [tasks EXCEPT ![k] = "failed"]
    /\ UNCHANGED <<emitted, arrived, handlerVars, supVars, roomVars, relayVars>>

\* line 85-89: the response is read and the task ends
forward_task_response(k) ==
    /\ tasks[k] = "posted"
    /\ tasks' = [tasks EXCEPT ![k] = "done"]
    /\ UNCHANGED <<emitted, arrived, handlerVars, supVars, roomVars, relayVars>>

\* The session's handlers and the tasks they created, on one event loop: a
\* task runs until it awaits, and the awaited requests complete in any order.
ForwardNext ==
    \/ \E ty \in EventTypes : session_emits(ty)
    \/ \E k \in EventIds :
          \/ forward_task_start(k)
          \/ forward_task_post(k)
          \/ forward_task_post_fails(k)
          \/ forward_task_response(k)

Init == SupInit /\ RoomsInit /\ RelayInit /\ AgentInit /\ ForwardInit

\* Request threads interleave.
Next ==
    \/ \E t \in Threads : Handle(t)
    \/ \E p \in Pids : ProcessExit(p)

Spec == Init /\ [][Next]_vars

\* One request at a time: thread 1 handles every request to completion.
NextSeq ==
    \/ Handle(1)
    \/ \E p \in Pids : ProcessExit(p)

SpecSeq == Init /\ [][NextSeq]_vars

\* line 58-70: the steps of a stop request
StopSteps(t) ==
    \/ stop_agent_check(t)
    \/ stop_agent_terminate(t)
    \/ stop_agent_wait(t)
    \/ stop_agent_set_stopped(t)
    \/ stop_agent_else(t)

\* One request at a time, and the thread that handles a stop request keeps
\* running: a step of it that stays possible is taken.  Nothing makes the child
\* process exit, so no fairness is stated for ProcessExit.
SpecSeqFair == SpecSeq /\ WF_vars(StopSteps(1))

SpecAgent == Init /\ [][AgentNext]_vars

SpecRelay == Init /\ [][RelayNext]_vars

SpecForward == Init /\ [][ForwardNext]_vars

\* The room manager, one request at a time.
RoomsNextSeq ==
    \/ RoomHandle(1)
    \/ \E w \in WorkerIds : run_worker_fails(w)

SpecRoomsSeq == Init /\ [][RoomsNextSeq]_vars

\* An end request arrives that names a room registered at that moment.
RequestEndRegistered(t) ==
    \E n \in DOMAIN active_rooms :
        RoomRequest(t, "end", Json([room_name |-> n]), "end_parse")

\* line 185-210, 124-145: the steps of an end request
EndSteps(t) ==
    \/ RequestEndRegistered(t)
    \/ end_voice_session_parse(t)
    \/ cleanup_room_check(t)
    \/ cleanup_room_read(t)
    \/ cleanup_room_shutdown(t)
    \/ cleanup_room_delete(t)
    \/ cleanup_room_del(t)

\* line 158-183, 36-72: the steps of a create request
CreateSteps(t) ==
    \/ RequestCreate(t)
    \/ create_voice_session_parse(t)
    \/ create_room_with_agent_names(t)
    \/ create_room_with_agent_create_room(t)
    \/ create_room_with_agent_create_room_raises(t)
    \/ create_room_with_agent_token(t)
    \/ create_room_with_agent_token_raises(t)
    \/ start_agent_in_room(t)
    \/ start_agent_in_room_raises(t)
    \/ create_room_with_agent_track(t)

\* Thread 1 handles create requests and end requests for registered rooms one
\* after another, and beside it thread 2 handles end requests for registered
\* rooms: two end requests can be in flight at once.
RoomsNextEnd ==
    \/ CreateSteps(1)
    \/ EndSteps(1)
    \/ EndSteps(2)

SpecRoomsEnd == Init /\ [][RoomsNextEnd]_vars

\* ======================================================= supervisor claims
\* Thread t takes the step at label a.
Step(t, a) == pc[t] = a /\ pc'[t] # a

Returns(t, status, code) ==
    /\ pc'[t] = "idle"
    /\ resp'[t].status = status
    /\ resp'[t].code = code

\* C1: a start request that finds the tracked process alive answers
\* 'already_running', spawns nothing, and leaves the tracked handle and
\* agent_status as they were.
C1_AlreadyRunning ==
    [][\A t \in Threads :
        (Step(t, "start_check") /\ ProcessAlive) =>
            /\ Returns(t, "already_running", 200)
            /\ procs' = procs
            /\ agent_process' = agent_process
            /\ agent_status' = agent_status]_vars

C1_Witness ==
    /\ pc[1] = "idle"
    /\ resp[1].op = "start"
    /\ resp[1].status = "already_running"
    /\ ProcessAlive
    /\ Cardinality(Spawned) = 1

\* C2: under every interleaving of requests at most one spawned process is
\* alive, and a live process is the one the tracked handle refers to.
C2_AtMostOneLive ==
    /\ Cardinality(Live) <= 1
    /\ \A p \in Live : agent_process = p

\* C3 as claimed: a start request that finds no live process spawns exactly
\* one child and sets 'starting'; the re-poll then leads to 'running' and
\* 'started', or to 'failed' and an error with HTTP 500.
StartSettles(t) ==
    /\ Step(t, "start_set_starting") =>
          agent_status' = "starting" /\ pc'[t] = "start_poll" /\ procs' = procs
    /\ Step(t, "start_poll") =>
          /\ pc'[t] = (IF PollIsNone(agent_process) THEN "start_set_running"
                                                    ELSE "start_set_failed")
          /\ procs' = procs
    /\ Step(t, "start_set_running") =>
          agent_status' = "running" /\ Returns(t, "started", 200)
    /\ Step(t, "start_set_failed") =>
          agent_status' = "failed" /\ Returns(t, "error", 500)

SpawnsOne(t) ==
    /\ agent_process' \notin Spawned
    /\ Spawned' = Spawned \cup {agent_process'}
    /\ procs'[agent_process'] = "alive"
    /\ \A p \in Spawned : procs'[p] = procs[p]
    /\ agent_status' = agent_status
    /\ pc'[t] = "start_set_starting"

C3_StartSpawnsOne ==
    [][\A t \in Threads :
        /\ (Step(t, "start_check") /\ ~ProcessAlive) =>
              pc'[t] = "start_popen" /\ procs' = procs
        /\ Step(t, "start_popen") => SpawnsOne(t)
        /\ StartSettles(t)]_vars

\* C3 as amended: the spawn may also raise; then no child is spawned, the
\* status becomes 'error' and the request answers an error with HTTP 500.
C3_StartSpawnsOneOrRaises ==
    [][\A t \in Threads :
        /\ (Step(t, "start_check") /\ ~ProcessAlive) =>
              pc'[t] = "start_popen" /\ procs' = procs
        /\ Step(t, "start_popen") =>
              \/ SpawnsOne(t)
              \/ /\ procs' = procs
                 /\ agent_process' = agent_process
                 /\ agent_status' = "error"
                 /\ Returns(t, "error", 500)
        /\ StartSettles(t)]_vars

\* a start request has spawned a child, set 'running' and answered 'started'
C3_Witness ==
    /\ pc[1] = "idle"
    /\ resp[1].op = "start"
    /\ resp[1].status = "started"
    /\ agent_status = "running"
    /\ Cardinality(Spawned) = 2
    /\ procs[1] = "exited"

\* C4: a stop request that finds the tracked process alive calls terminate,
\* gets past the wait only once that process has exited, and returns
\* 'stopped' with agent_status 'stopped' and the tracked process not alive.
C4_StopWaitsForExit ==
    [][\A t \in Threads :
        /\ (Step(t, "stop_check") /\ ProcessAlive) => pc'[t] = "stop_terminate"
        /\ Step(t, "stop_terminate") =>
              agent_process \in signals' /\ pc'[t] = "stop_wait"
        /\ Step(t, "stop_wait") =>
              procs[agent_process] = "exited" /\ pc'[t] = "stop_set_stopped"
        /\ Step(t, "stop_set_stopped") =>
              /\ Returns(t, "stopped", 200)
              /\ agent_status' = "stopped"
              /\ agent_process' \in signals'
              /\ ~ProcessAlive']_vars

C4_Witness ==
    /\ pc[1] = "idle"
    /\ resp[1].op = "stop"
    /\ resp[1].status = "stopped"
    /\ resp[1].was = "running"
    /\ agent_status = "stopped"
    /\ agent_process \in signals
    /\ procs[agent_process] = "exited"

\* C5: a stop request that finds no live process answers 'not_running',
\* calls terminate on nothing, and leaves agent_status 'stopped' whatever it
\* was before.
C5_StopNotRunning ==
    [][\A t \in Threads :
        /\ (Step(t, "stop_check") /\ ~ProcessAlive) =>
              pc'[t] = "stop_else" /\ signals' = signals
        /\ Step(t, "stop_else") =>
              /\ Returns(t, "not_running", 200)
              /\ agent_status' = "stopped"
              /\ signals' = signals]_vars

\* the status was 'failed' when the stop request came in
C5_Witness ==
    /\ pc[1] = "idle"
    /\ resp[1].op = "stop"
    /\ resp[1].status = "not_running"
    /\ resp[1].was = "failed"
    /\ agent_status = "stopped"
    /\ signals = {}

\* C6: a status response carries a process id exactly when it reports
\* 'running', reports 'running' exactly when the tracked process is alive,
\* and reports 'stopped' without a process id when the process has exited.
C6_StatusResponse ==
    [][\A t \in Threads :
        Step(t, "status_pid") =>
            /\ (resp'[t].pid # 0) <=> (resp'[t].status = "running")
            /\ (resp'[t].status = "running") <=> ProcessAlive
            /\ (agent_process # 0 /\ ~ProcessAlive) =>
                  resp'[t].status = "stopped" /\ resp'[t].pid = 0]_vars

\* C7 as claimed: agent_status is one of the four statuses and changes only
\* along stopped->starting, starting->running, starting->failed and
\* running->stopped.
ClaimedStatuses == {"stopped", "starting", "running", "failed"}

ClaimedTransitions ==
    { <<"stopped", "starting">>, <<"starting", "running">>,
      <<"starting", "failed">>, <<"running", "stopped">> }

C7_StateMachine ==
    [][/\ agent_status' \in ClaimedStatuses
       /\ agent_status' # agent_status =>
             <<agent_status, agent_status'>> \in ClaimedTransitions]_vars

\* C7 as amended: 'error' is a fifth status, and the status also changes
\* failed->stopped, error->stopped, and to 'starting' or 'error' from every
\* status but 'starting'.
AmendedTransitions ==
    ClaimedTransitions \cup
    { <<"failed", "stopped">>, <<"error", "stopped">>,
      <<"failed", "starting">>, <<"running", "starting">>, <<"error", "starting">>,
      <<"stopped", "error">>, <<"failed", "error">>, <<"running", "error">> }

C7_StateMachineAmended ==
    [][/\ agent_status' \in ClaimedStatuses \cup {"error"}
       /\ agent_status' # agent_status =>
             <<agent_status, agent_status'>> \in AmendedTransitions]_vars

\* a start request found the status 'running', the process gone, and the
\* spawn raised
C7_Witness ==
    /\ pc[1] = "idle"
    /\ resp[1].op = "start"
    /\ resp[1].was = "running"
    /\ agent_status = "error"

\* ===================================================== room manager claims
\* 'voice_room_' followed by 8 hex characters
MatchesRoomPattern(name) ==
    /\ Len(name) = Len(RoomPrefix) + 8
    /\ SubSeq(name, 1, Len(RoomPrefix)) = RoomPrefix
    /\ \A i \in (Len(RoomPrefix) + 1)..Len(name) : name[i] \in Hex

Finished(t, op) == rpc[t] = "idle" /\ rresp[t].op = op

ListedRooms(t) ==
    {rresp[t].active_sessions[i].room_name : i \in 1..Len(rresp[t].active_sessions)}

\* C8: a successful create_session answers with the supplied user_name as
\* participant_name, a non-empty token and a room name 'voice_room_' + 8 hex
\* characters that is then a key of the registry; a list_sessions that
\* follows lists it, and lists and counts exactly the registered rooms.
C8_CreateSession ==
    \A t \in Threads :
        /\ (Finished(t, "create") /\ rresp[t].success) =>
              /\ (~rloc[t].body.isnull /\ "user_name" \in DOMAIN rloc[t].body.dict) =>
                    rresp[t].session.participant_name = rloc[t].body.dict["user_name"]
              /\ Len(rresp[t].session.participant_token) > 0
              /\ MatchesRoomPattern(rresp[t].session.room_name)
              /\ rresp[t].session.room_name \in DOMAIN active_rooms
        /\ Finished(t, "list") =>
              /\ ListedRooms(t) = DOMAIN active_rooms
              /\ rresp[t].count = Cardinality(DOMAIN active_rooms)
              /\ rresp[t].prev # None => rresp[t].prev \in ListedRooms(t)

\* a list request that followed a successful create, with two rooms registered
C8_Witness ==
    /\ Finished(1, "list")
    /\ rresp[1].prev # None
    /\ rresp[1].prev \in ListedRooms(1)
    /\ rresp[1].count = 2

InCreate(t) ==
    rpc[t] \in {"create_parse", "create_names", "create_room", "create_token", "create_worker"}

\* C9: a create_session of which a step fails (room creation, token
\* issuance, starting the worker) answers HTTP 500 with success false and
\* leaves the registry exactly as the request found it.
C9_NoPartialRoom ==
    \A t \in Threads :
        /\ InCreate(t) => active_rooms = rloc[t].snap
        /\ Finished(t, "create") =>
              /\ (rloc[t].failed # "none") <=> ~rresp[t].success
              /\ ~rresp[t].success =>
                    /\ rresp[t].code = 500
                    /\ active_rooms = rloc[t].snap
                    /\ rresp[t].session = NoSession

\* the worker could not be built after the remote room was created
C9_Witness ==
    /\ Finished(1, "create")
    /\ rloc[1].failed = "start_agent_in_room"
    /\ rresp[1].code = 500
    /\ rloc[1].room_name \in remote_rooms
    /\ rloc[1].room_name \notin DOMAIN active_rooms
    /\ DOMAIN active_rooms # {}

\* The room an end request names, when it names one.
NamedRoom(t) ==
    IF rloc[t].body.isnull THEN None
    ELSE IF "room_name" \in DOMAIN rloc[t].body.dict THEN rloc[t].body.dict["room_name"]
    ELSE None

\* C10: an end_session for a registered room removes that room's entry and
\* answers success whether the worker shutdown and the remote deletion
\* succeed or fail; both are attempted, shutdown first, and no other entry
\* of the registry changes.
C10_EndSession ==
    \A t \in Threads :
        (Finished(t, "end") /\ NamedRoom(t) \in DOMAIN rloc[t].snap) =>
            /\ rresp[t].success /\ rresp[t].code = 200
            /\ NamedRoom(t) \notin DOMAIN active_rooms
            /\ DOMAIN active_rooms = DOMAIN rloc[t].snap \ {NamedRoom(t)}
            /\ \A n \in DOMAIN active_rooms : active_rooms[n] = rloc[t].snap[n]
            /\ Len(rloc[t].calls) = 2
            /\ rloc[t].calls[1].call = "shutdown"
            /\ rloc[t].calls[2].call = "delete_room"

\* shutdown and deletion both failed, and another room stays registered
C10_Witness ==
    /\ Finished(1, "end")
    /\ rresp[1].success
    /\ NamedRoom(1) \in DOMAIN rloc[1].snap
    /\ Len(rloc[1].calls) = 2
    /\ ~rloc[1].calls[1].ok
    /\ ~rloc[1].calls[2].ok
    /\ DOMAIN active_rooms # {}

\* C11: an end_session request that names a non-empty room which is not in
\* the registry answers success, makes no call to the worker or the room
\* service and leaves the registry and the remote rooms as they were; this is
\* the case of the second of two end requests in sequence for one room, which
\* answers success like the first and changes nothing.
C11_EndUnknownRoom ==
    \A t \in Threads :
        (/\ Finished(t, "end")
         /\ ~Falsy(NamedRoom(t))
         /\ (NamedRoom(t) \notin DOMAIN rloc[t].snap \/ rresp[t].prev_end = NamedRoom(t))) =>
            /\ rresp[t].success /\ rresp[t].code = 200
            /\ rloc[t].calls = <<>>
            /\ ~rloc[t].found
            /\ active_rooms = rloc[t].snap

\* the second end request in sequence for a room the first one removed, with
\* another session still registered
C11_Witness ==
    /\ Finished(1, "end")
    /\ rresp[1].success
    /\ rresp[1].prev_end = NamedRoom(1)
    /\ NamedRoom(1) # None
    /\ rloc[1].calls = <<>>
    /\ DOMAIN active_rooms # {}

\* C12: an end-voice-session request with no room name (the field missing, the
\* field empty, or no JSON body at all) is answered with HTTP 400 and success
\* false, makes no cleanup call and leaves the registry unchanged.
C12_EndWithoutRoomName ==
    \A t \in Threads :
        (Finished(t, "end") /\ Falsy(NamedRoom(t))) =>
            /\ rresp[t].code = 400
            /\ ~rresp[t].success
            /\ rloc[t].calls = <<>>
            /\ active_rooms = rloc[t].snap

\* C20: a stop request on a live agent process completes exactly when the
\* process exits after the termination signal.  Once the process has exited the
\* request sets agent_status 'stopped' and returns 'stopped'; while the process
\* is alive the request stays in wait(): none of its steps is possible, it does
\* not return and it does not set agent_status.
C20_StopCompletesIffExit ==
    /\ [](\A t \in Threads :
            (pc[t] = "stop_wait" /\ procs[agent_process] = "alive") =>
                ~ENABLED StopSteps(t))
    /\ [][\A t \in Threads :
            (pc[t] = "stop_wait" /\ procs[agent_process] = "alive") =>
                /\ pc'[t] = "stop_wait"
                /\ resp'[t] = resp[t]
                /\ agent_status' = agent_status]_vars
    /\ [][\A t \in Threads :
            Step(t, "stop_set_stopped") =>
                /\ procs[agent_process] = "exited"
                /\ agent_process \in signals]_vars
    /\ ((pc[1] = "stop_wait" /\ procs[agent_process] = "exited")
            ~> (pc[1] = "idle" /\ resp[1].op = "stop" /\ resp[1].status = "stopped"
                /\ agent_status = "stopped"))

\* the termination signal was sent, the process is still alive and the request
\* is held in wait()
C20_Witness ==
    /\ pc[1] = "stop_wait"
    /\ resp[1].op = "stop"
    /\ agent_process \in signals
    /\ procs[agent_process] = "alive"
    /\ agent_status = "running"

\* ============================================================ relay claims
\* The events a..b that follow event a, in order.
Range(a, b) == [k \in 1..(b - a) |-> a + k]

\* The events among the chunks written to a client.
Events(chunks) == SelectSeq(chunks, LAMBDA x : x # Heartbeat)

\* The events a stream holds and has not written yet, oldest first.
Pending(c) ==
    (IF held[c] \in {NoChunk, Heartbeat} THEN <<>> ELSE <<held[c]>>) \o queue[c]

Active(c) == spc[c] \in {"get", "yield"}

\* The last event the publish requests have offered to a connection's queue:
\* the one being published is not counted while the loop has not reached it.
Offered(c) ==
    IF ppc[1] = "put"
       /\ \E i \in ploc[1].i..Len(ploc[1].targets) : ploc[1].targets[i] = c
       THEN published - 1 ELSE published

\* C13: a subscriber that is registered and stays connected gets every event
\* published since it registered, each once and in the order of publication:
\* what was written to it followed by what its stream still holds is exactly
\* that sequence of events, nothing lost, duplicated or out of order.
C13_FifoDelivery ==
    \A c \in Conns :
        (Active(c) /\ connected[c]) =>
            Events(delivered[c]) \o Pending(c) = Range(joined[c], Offered(c))

\* two subscribers were each written all the events of the run
C13_Witness ==
    /\ \A c \in Conns : connected[c] /\ Events(delivered[c]) = Range(0, MaxEvents)
    /\ Cardinality(Conns) >= 2
    /\ MaxEvents >= 2

C15_QueueBounded ==
    \A c \in Conns :
        queue[c] # <<>> => (QueueMaxsize > 0 /\ Len(queue[c]) <= QueueMaxsize)

\* C16: a heartbeat is built only when the timeout of get passes with the
\* queue empty and nothing put on it since the get began; building it and
\* writing it change neither the queue nor the events written; after it the
\* subscriber is still registered and its stream is back in get; and the
\* events written to a client are in publication order with heartbeats among
\* them.
C16_Heartbeat ==
    /\ [][\A c \in Conns :
            /\ (spc[c] = "get" /\ spc'[c] = "yield" /\ held'[c] = Heartbeat) =>
                  /\ queue[c] = <<>> /\ idle[c]
                  /\ queue'[c] = queue[c]
                  /\ delivered'[c] = delivered[c]
            /\ (spc[c] = "yield" /\ held[c] = Heartbeat /\ connected[c]
                    /\ spc'[c] # "yield") =>
                  /\ delivered'[c] = Append(delivered[c], Heartbeat)
                  /\ queue'[c] = queue[c]
                  /\ spc'[c] = "get"
                  /\ Registered(c)']_vars
    /\ [](\A c \in Conns :
            Events(delivered[c]) =
                Range(joined[c], joined[c] + Len(Events(delivered[c]))))

\* a client was written an event, then a heartbeat, then the next event
C16_Witness ==
    \E c \in Conns :
        /\ Len(delivered[c]) >= 3
        /\ delivered[c][1] = 1
        /\ delivered[c][2] = Heartbeat
        /\ delivered[c][3] = 2
        /\ Registered(c)

\* C17 as claimed: a stream ends only when its client has disconnected, a
\* queue is registered exactly while its stream is active, and the queue of a
\* client that has disconnected is removed within one publish cycle: no
\* second publish finds it registered and enqueues on it.
C17_RemovedWithinOnePublish ==
    \A c \in Conns :
        /\ spc[c] = "closed" => ~connected[c]
        /\ Registered(c) <=> Active(c)
        /\ late[c] <= 1

\* C17, amended: a stream ends only when its client has disconnected: it ends
\* when it next writes a chunk to that client, and removes its queue then; a
\* queue is registered exactly while its stream is active.
C17_StreamLifecycle ==
    /\ [](\A c \in Conns :
            /\ spc[c] = "closed" => ~connected[c]
            /\ Registered(c) <=> Active(c))
    /\ [][\A c \in Conns :
            /\ (spc[c] = "yield" /\ ~connected[c] /\ spc'[c] # "yield") =>
                  spc'[c] = "closed" /\ ~Registered(c)'
            /\ (spc[c] # "closed" /\ spc'[c] = "closed") =>
                  spc[c] = "yield" /\ ~connected[c]]_vars

\* a stream ended after two events were enqueued for its departed client,
\* and the other subscriber is still registered
C17_Witness ==
    \E c \in Conns :
        /\ spc[c] = "closed"
        /\ ~Registered(c)
        /\ late[c] >= 2
        /\ \E d \in Conns \ {c} : Registered(d) /\ connected[d]

\* C18: there is no replay: no event published before a subscriber's queue
\* was registered is written to that subscriber, and no event is written to
\* one subscriber twice.
C18_NoReplay ==
    \A c \in Conns :
        \A i \in 1..Len(delivered[c]) :
            delivered[c][i] # Heartbeat =>
                /\ delivered[c][i] > joined[c]
                /\ \A j \in 1..(i - 1) : delivered[c][j] # delivered[c][i]

\* a subscriber that registered after the first event was written the second
\* one, while the first subscriber was written both
C18_Witness ==
    /\ joined[2] = 1
    /\ delivered[2] = <<2>>
    /\ Events(delivered[1]) = <<1, 2>>

\* ============================================================ agent claims
\* The handler of the last packet has ended.
Handled == apc = "idle" /\ handled.n > 0

\* The packet is a JSON object whose type is ty.
Asks(ty) ==
    /\ packet.utf8 /\ packet.json /\ packet.isdict
    /\ "type" \in DOMAIN packet.dict
    /\ packet.dict["type"] = ty

\* The packet is an update_instructions message that carries instructions.
AsksUpdate ==
    /\ Asks("update_instructions")
    /\ "instructions" \in DOMAIN packet.dict
    /\ packet.dict["instructions"] # ""

\* The handler handed exactly one message to send_data_to_frontend.
OneResponse(data) ==
    /\ Len(sent) = Len(handled.sent) + 1
    /\ SubSeq(sent, 1, Len(handled.sent)) = handled.sent
    /\ sent[Len(sent)].data = data

\* C19: the data-channel handler answers get_status, update_instructions
\* with non-empty instructions, and get_conversation_history with one
\* response each; for a message of any other type, and for a payload that
\* does not decode or is not a JSON object, it sends nothing and changes no
\* agent state; and it never raises to its caller.
C19_DataChannelHandler ==
    Handled =>
        /\ ~handled.raised
        /\ session_data = handled.session_data
        /\ IF Asks("get_status")
              THEN /\ OneResponse(StatusResponse(handled.session_data))
                   /\ instructions = handled.instructions
           ELSE IF AsksUpdate
              THEN /\ OneResponse(InstructionsUpdated(packet.dict["instructions"]))
                   /\ instructions = packet.dict["instructions"]
           ELSE IF Asks("get_conversation_history")
              THEN /\ OneResponse(ConversationHistory(handled.session_data))
                   /\ instructions = handled.instructions
           ELSE /\ sent = handled.sent
                /\ instructions = handled.instructions

\* after an update_instructions was answered, a payload that is not JSON was
\* dropped without a response and without touching the new instructions
C19_Witness ==
    /\ Handled
    /\ packet.utf8 /\ ~packet.json
    /\ Len(sent) = 1
    /\ sent[1].data = InstructionsUpdated("Be brief.")
    /\ instructions = "Be brief."
    /\ ~handled.raised

\* ================================================== concurrency claims
\* C21: the clients_notified a publish returns is the number of subscriber
\* queues on which that publish enqueued its event, whatever the streams do
\* while the request runs.
C21_ClientsNotified ==
    \A t \in Threads :
        (ppc[t] = "idle" /\ presp[t].status = "received") =>
            presp[t].clients_notified = ploc[t].puts

\* C22: two end requests for one registered room that are handled at the
\* same time both answer success, and the room is not in the registry after
\* them: neither fails because the other removed the entry first.
C22_ConcurrentEnd ==
    \A t \in Threads : \A u \in Threads \ {t} :
        (/\ Finished(t, "end") /\ Finished(u, "end")
         /\ ~Falsy(NamedRoom(t))
         /\ NamedRoom(t) = NamedRoom(u)
         /\ NamedRoom(t) \in DOMAIN rloc[t].snap
         /\ NamedRoom(u) \in DOMAIN rloc[u].snap) =>
            /\ rresp[t].success /\ rresp[t].code = 200
            /\ rresp[u].success /\ rresp[u].code = 200
            /\ NamedRoom(t) \notin DOMAIN active_rooms

\* C23: the events of one session reach the relay in the order in which the
\* session emitted them.
C23_ForwardedInOrder ==
    \A i \in 1..Len(arrived) : \A j \in 1..Len(arrived) :
        i < j => arrived[i] < arrived[j]

====
